---- MODULE Spec2Model ----
(***************************************************************************)
(* Points-to analysis of src/PointsTo/PointsTo.cpp: the solver (the rule    *)
(* applications, the fixpoint loop, pruneByType, computePointsToSets and   *)
(* getPointsToSet), the rule extraction of ProgramStructure and CallMaps,  *)
(* and the graph view PointsToGraph.                                       *)
(*                                                                         *)
(* A Pointer and a Pointee are pairs <<value, offset>>; the points-to map  *)
(* S is a function from the keys present in the std::map to sets of        *)
(* pointees.  S[k] of the C++ code creates the key k with an empty set     *)
(* when it is absent, which Ensure models.                                 *)
(***************************************************************************)
EXTENDS Integers, Sequences, FiniteSets, TLC

\* ------------------------------------------------------------------------
\* Bounds
\* ------------------------------------------------------------------------

\* longest rule sequence (ProgramStructure) the solver is run on
MaxRules == 4

\* longest instruction sequence of a module rules are extracted from
MaxInsts == 3

\* most calls made on one graph
MaxOps == 3

\* ------------------------------------------------------------------------
\* Program constants
\* ------------------------------------------------------------------------

\* "if (isArray && sum > 64) sum = 64"
ArrayCap == 64
\* "if (sameCount >= 3) continue"
CrowdLimit == 3
\* "if (++sameCount >= 5) break"
CrowdEarlyOut == 5

\* ------------------------------------------------------------------------
\* The IR values the rules range over
\* ------------------------------------------------------------------------

\* what each value is in the IR
ValueKind ==
  [ a     |-> "global_init",   \* struct N a = {...}; allocated size 16
    buf   |-> "global_decl",   \* extern global, no initializer
    s     |-> "alloca",        \* non-array alloca, allocated size 8
    f     |-> "function",
    null  |-> "null",          \* ConstantPointerNull
    m     |-> "call",          \* call to an allocation function
    p     |-> "temp",          \* phi / load results
    q     |-> "temp",
    h     |-> "temp",
    gFld  |-> "gep", gNext |-> "gep", gNeg  |-> "gep", gArrP |-> "gep",
    gArrB |-> "gep", gFun  |-> "gep", gBack |-> "gep", gBig  |-> "gep",
    gVar  |-> "gep",
    \* the values of the modules the rules are extracted from
    g     |-> "function", getS |-> "function", dup   |-> "function",
    idp   |-> "function", vlog |-> "function", w     |-> "function",
    malloc |-> "function", free |-> "function",
    fx    |-> "argument", gx   |-> "argument", dupx  |-> "argument",
    idpx  |-> "argument", vfmt |-> "argument", wn    |-> "argument",
    wp    |-> "argument",
    c1    |-> "call", c2 |-> "call", c3 |-> "call", c4 |-> "call",
    c5    |-> "call", c6 |-> "call",
    one   |-> "int" ]          \* ConstantInt

Values == DOMAIN ValueKind

\* position of a value in the address order std::set iterates in
ValueOrder ==
  [ a |-> 1, buf |-> 2, s |-> 3, f |-> 4, null |-> 5, m |-> 6, p |-> 7,
    q |-> 8, h |-> 9, gFld |-> 10, gNext |-> 11, gNeg |-> 12, gArrP |-> 13,
    gArrB |-> 14, gFun |-> 15, gBack |-> 16, gBig |-> 17, gVar |-> 18,
    g |-> 19, getS |-> 20, dup |-> 21, idp |-> 22, vlog |-> 23, w |-> 24,
    malloc |-> 25, free |-> 26, fx |-> 27, gx |-> 28, dupx |-> 29,
    idpx |-> 30, vfmt |-> 31, wn |-> 32, wp |-> 33, c1 |-> 34, c2 |-> 35,
    c3 |-> 36, c4 |-> 37, c5 |-> 38, c6 |-> 39, one |-> 40 ]

IsFunction(v) == ValueKind[v] = "function"
IsNull(v) == ValueKind[v] = "null"

\* globals, stack allocations and function symbols denote an address
HasExtraReference(v) ==
  ValueKind[v] \in {"global_init", "global_decl", "alloca", "function"}

\* DL.getTypeAllocSize of the object a sized value names
TypeAllocSize(v) == IF v = "a" THEN 16 ELSE 8

\* StructLayout::getElementOffset: the structs have 8-byte fields
GetElementOffset(i) == 8 * i

\* one GEP index: a constant or not, its value, the type it indexes into
\* ("struct" or "seq") and the store size of the indexed type
ConstIdx(val, cty, size) ==
  [const |-> TRUE, val |-> val, cty |-> cty, size |-> size]
VarIdx(cty, size) ==
  [const |-> FALSE, val |-> 0, cty |-> cty, size |-> size]

\* the GEP instructions: pointer operand (constant expressions already
\* eliminated) and the indices the gep_type_iterator yields
GepInst ==
  [ gFld  |-> [op |-> "buf", idx |-> <<ConstIdx(0, "seq", 16),
                                      ConstIdx(1, "struct", 8)>>],
    gNext |-> [op |-> "p",   idx |-> <<ConstIdx(0, "seq", 16),
                                      ConstIdx(1, "struct", 8)>>],
    gNeg  |-> [op |-> "a",   idx |-> <<ConstIdx(-1, "seq", 8)>>],
    gArrP |-> [op |-> "p",   idx |-> <<ConstIdx(0, "seq", 400),
                                      ConstIdx(25, "seq", 4)>>],
    gArrB |-> [op |-> "buf", idx |-> <<ConstIdx(0, "seq", 400),
                                      ConstIdx(25, "seq", 4)>>],
    gFun  |-> [op |-> "f",   idx |-> <<ConstIdx(1, "seq", 8)>>],
    gBack |-> [op |-> "p",   idx |-> <<ConstIdx(-2, "seq", 8)>>],
    gBig  |-> [op |-> "p",   idx |-> <<ConstIdx(0, "seq", 80),
                                      ConstIdx(9, "struct", 8)>>],
    gVar  |-> [op |-> "p",   idx |-> <<VarIdx("seq", 8)>>] ]

\* ------------------------------------------------------------------------
\* The points-to map
\* ------------------------------------------------------------------------

EmptyMap == [k \in {} |-> {}]

\* S[k]: the key is created with an empty set when it is absent
Ensure(S0, k) == IF k \in DOMAIN S0 THEN S0 ELSE S0 @@ (k :> {})

\* the set stored under k, empty for a missing key
At(S0, k) == IF k \in DOMAIN S0 THEN S0[k] ELSE {}

\* S0 with the set under k replaced
Put(S0, k, set) == [x \in DOMAIN S0 \cup {k} |-> IF x = k THEN set ELSE S0[x]]

\* the entries with a non-empty set
NonEmpty(S0) == [k \in {x \in DOMAIN S0 : S0[x] # {}} |-> S0[k]]

\* std::set<Pointee> order: by value address, then by offset
Less(x, y) ==
  \/ ValueOrder[x[1]] < ValueOrder[y[1]]
  \/ ValueOrder[x[1]] = ValueOrder[y[1]] /\ x[2] < y[2]

\* the element of a set of one; the loops below pass the outcome of an
\* iteration to the next one through such a set, as a value
Only(set) == CHOOSE x \in set : TRUE

\* the elements of set in the order begin() .. end() visits them
RECURSIVE InOrder(_)
InOrder(set) ==
  IF set = {} THEN <<>>
  ELSE Only({ <<x>> \o InOrder(set \ {x}) :
               x \in {y \in set : \A z \in set \ {y} : Less(y, z)} })

\* the result of one applyRule
Result(S0, changed) ==
  [S |-> S0, changed |-> changed, failed |-> FALSE, aborted |-> FALSE]

\* ------------------------------------------------------------------------
\* applyRule, one overload per rule shape
\* ------------------------------------------------------------------------

\* VAR = VAR with the copy going from L to R
ApplyVarAsgnVarReversed(S0, lval, rval) ==
  LET Rk == <<rval, -1>>
      S1 == Ensure(Ensure(S0, <<lval, -1>>), Rk)
      R2 == S1[Rk] \cup S1[<<lval, -1>>]
  IN Result(Put(S1, Rk, R2), Cardinality(S1[Rk]) # Cardinality(R2))

\* VAR = VAR
ApplyVarAsgnVar(S0, lval, rval) ==
  LET Lk == <<lval, -1>>
      S1 == Ensure(Ensure(S0, Lk), <<rval, -1>>)
      L  == S1[Lk]
      R  == S1[<<rval, -1>>]
      L2 == L \cup R
  IN Result(Put(S1, Lk, L2), Cardinality(L) # Cardinality(L2))

RECURSIVE AccumulateFrom(_, _, _, _)
AccumulateFrom(idx, i, off, isArray) ==
  IF i > Len(idx) THEN [off |-> off, isArray |-> isArray]
  ELSE LET OpC == idx[i] IN
    IF ~OpC.const THEN AccumulateFrom(idx, i + 1, off, isArray)
    ELSE IF OpC.val = 0 THEN AccumulateFrom(idx, i + 1, off, isArray)
    ELSE IF OpC.cty = "struct"
      THEN AccumulateFrom(idx, i + 1, off + GetElementOffset(OpC.val), isArray)
    ELSE IF OpC.cty = "seq"
      THEN AccumulateFrom(idx, i + 1, off + OpC.val * OpC.size, TRUE)
    ELSE AccumulateFrom(idx, i + 1, off, isArray)

\* accumulateConstantOffset without "isArray = true"
AccumulateConstantOffsetNoArray(gep) ==
  [AccumulateFrom(GepInst[gep].idx, 1, 0, FALSE) EXCEPT !.isArray = FALSE]

\* the constant offset of a GEP and whether a sequential index took part
AccumulateConstantOffset(gep) == AccumulateFrom(GepInst[gep].idx, 1, 0, FALSE)

\* (uint64_t)sum >= size for an int64_t sum and 0 <= size < 2^63: a negative
\* sum converts to sum + 2^64 >= 2^63, which is above every such size
GeU64(sum, size) == IF sum < 0 THEN TRUE ELSE sum >= size

\* FALSE when sum lies outside the object Rval names
CheckOffset(Rval, sum) ==
  IF ValueKind[Rval] \in {"global_init", "global_decl"}
    THEN ~(ValueKind[Rval] = "global_init" /\ GeU64(sum, TypeAllocSize(Rval)))
  ELSE IF ValueKind[Rval] = "alloca"
    THEN ~GeU64(sum, TypeAllocSize(Rval))
  ELSE TRUE

\* sameCount counting every entry of L, whatever its value
SameCountOfAll(L, Rval) ==
  LET n == Cardinality(L)
  IN IF n >= CrowdEarlyOut THEN CrowdEarlyOut ELSE n

\* entries of L whose value is Rval, counted up to the early out
SameCount(L, Rval) ==
  LET n == Cardinality({x \in L : x[1] = Rval})
  IN IF n >= CrowdEarlyOut THEN CrowdEarlyOut ELSE n

\* sum after the clamp to 0
ClampNegative(sum) == IF sum < 0 THEN 0 ELSE sum

\* sum with the array cap left out
CapArrayNone(isArray, sum) == sum

\* sum after the array cap
CapArray(isArray, sum) == IF isArray /\ sum > ArrayCap THEN ArrayCap ELSE sum

\* one iteration of the loop over set(op,-1), after its assert: L afterwards
GepElement(L, I, off, isArray) ==
  LET Rval == I[1]
      sum  == I[2] + off
  IN IF I \in L THEN L
     ELSE IF off # 0 /\ (IsFunction(Rval) \/ IsNull(Rval)) THEN L
     ELSE IF ~CheckOffset(Rval, sum) THEN L
     ELSE IF SameCount(L, Rval) >= CrowdLimit THEN L
     ELSE L \cup {<<Rval, CapArray(isArray, ClampNegative(sum))>>}

\* the loop over R; assert(I->second >= 0) ends the run in a build with
\* assertions and is compiled out under NDEBUG
RECURSIVE GepLoop(_, _, _, _, _, _, _)
GepLoop(L, R, i, off, isArray, ndebug, failed) ==
  IF i > Len(R) THEN [L |-> L, failed |-> failed, aborted |-> FALSE]
  ELSE IF R[i][2] < 0 /\ ~ndebug
    THEN [L |-> L, failed |-> TRUE, aborted |-> TRUE]
  ELSE Only({ GepLoop(L2, R, i + 1, off, isArray, ndebug,
                      failed \/ R[i][2] < 0) :
               L2 \in {GepElement(L, R[i], off, isArray)} })

\* VAR = GEP(VAR)
ApplyVarAsgnGep(S0, lval, rval, ndebug) ==
  LET Lk  == <<lval, -1>>
      S1  == Ensure(S0, Lk)
      L   == S1[Lk]
      op  == GepInst[rval].op
      acc == AccumulateConstantOffset(rval)
  IN IF HasExtraReference(op)
       THEN LET L2 == L \cup {<<op, acc.off>>}
            IN Result(Put(S1, Lk, L2), Cardinality(L) # Cardinality(L2))
       ELSE LET S2 == Ensure(S1, <<op, -1>>)
            IN Only({ [S |-> Put(S2, Lk, lp.L),
                       changed |-> Cardinality(L) # Cardinality(lp.L),
                       failed |-> lp.failed, aborted |-> lp.aborted] :
                      lp \in { GepLoop(L, R, 1, acc.off, acc.isArray, ndebug,
                                       FALSE) :
                               R \in {InOrder(S2[<<op, -1>>])} } })

\* VAR = &VAR, VAR = ALLOC and VAR = NULL: insert (rval, 0) into L
InsertZero(S0, lval, rval) ==
  LET Lk == <<lval, -1>>
      S1 == Ensure(S0, Lk)
      L2 == S1[Lk] \cup {<<rval, 0>>}
  IN Result(Put(S1, Lk, L2), Cardinality(S1[Lk]) # Cardinality(L2))

\* VAR = &VAR
ApplyVarAsgnRefVar(S0, lval, rval) == InsertZero(S0, lval, rval)

\* VAR = ALLOC
ApplyVarAsgnAlloc(S0, lval, rval) == InsertZero(S0, lval, rval)

\* VAR = NULL
ApplyVarAsgnNull(S0, lval, rval) == InsertZero(S0, lval, rval)

\* one iteration of the loop of VAR = *VAR: X = S[*i] is copied into L
LoadElement(S0, Lk, e) ==
  LET S1 == Ensure(S0, e)
  IN Put(S1, Lk, S1[Lk] \cup S1[e])

\* the loop of VAR = *VAR over R
RECURSIVE LoadLoop(_, _, _, _)
LoadLoop(S0, Lk, R, i) ==
  IF i > Len(R) THEN S0
  ELSE Only({ LoadLoop(S1, Lk, R, i + 1) :
               S1 \in {LoadElement(S0, Lk, R[i])} })

\* VAR = *VAR reading the set of the variable (value, -1) instead of the
\* set under the pointee
ApplyVarAsgnDrefVarOfVariable(S0, lval, rval, idx) ==
  LET Lk == <<lval, idx>>
      S1 == Ensure(Ensure(S0, Lk), <<rval, -1>>)
  IN Only({ Result(S2, Cardinality(S1[Lk]) # Cardinality(S2[Lk])) :
             S2 \in { LoadLoop(S1, Lk, R, 1) :
                      R \in {InOrder({<<e[1], -1>> :
                                        e \in S1[<<rval, -1>>]})} } })

\* VAR = *VAR, into the key (lval, idx)
ApplyVarAsgnDrefVar(S0, lval, rval, idx) ==
  LET Lk == <<lval, idx>>
      S1 == Ensure(Ensure(S0, Lk), <<rval, -1>>)
  IN Only({ Result(S2, Cardinality(S1[Lk]) # Cardinality(S2[Lk])) :
             S2 \in { LoadLoop(S1, Lk, R, 1) :
                      R \in {InOrder(S1[<<rval, -1>>])} } })

\* that iteration with "change = X.size() != old_size"
StoreElementLastChange(S0, e, add, change) ==
  LET S1 == Ensure(S0, e)
      X2 == S1[e] \cup add
  IN Result(Put(S1, e, X2), Cardinality(X2) # Cardinality(S1[e]))

\* one iteration of the loop of the three *VAR = ... rules that add a set
\* to every X = S[*i]
StoreElement(S0, e, add, change) ==
  LET S1 == Ensure(S0, e)
      X2 == S1[e] \cup add
  IN Result(Put(S1, e, X2), change \/ Cardinality(X2) # Cardinality(S1[e]))

\* that loop over L
RECURSIVE StoreLoop(_, _, _, _, _)
StoreLoop(S0, L, i, add, change) ==
  IF i > Len(L) THEN Result(S0, change)
  ELSE Only({ StoreLoop(res.S, L, i + 1, add, res.changed) :
               res \in {StoreElement(S0, L[i], add, change)} })

\* *VAR = VAR storing under (value, -1) instead of under the pointee
ApplyDrefVarAsgnVarAtVariable(S0, lval, rval) ==
  LET S1 == Ensure(Ensure(S0, <<lval, -1>>), <<rval, -1>>)
  IN Only({ StoreLoop(S1, L, 1, S1[<<rval, -1>>], FALSE) :
             L \in {InOrder({<<e[1], -1>> : e \in S1[<<lval, -1>>]})} })

\* *VAR = VAR
ApplyDrefVarAsgnVar(S0, lval, rval) ==
  LET S1 == Ensure(Ensure(S0, <<lval, -1>>), <<rval, -1>>)
  IN Only({ StoreLoop(S1, L, 1, S1[<<rval, -1>>], FALSE) :
             L \in {InOrder(S1[<<lval, -1>>])} })

\* *VAR = &VAR
ApplyDrefVarAsgnRefVar(S0, lval, rval) ==
  LET S1 == Ensure(S0, <<lval, -1>>)
  IN Only({ StoreLoop(S1, L, 1, {<<rval, 0>>}, FALSE) :
             L \in {InOrder(S1[<<lval, -1>>])} })

\* *VAR = NULL
ApplyDrefVarAsgnNull(S0, lval, rval) ==
  LET S1 == Ensure(S0, <<lval, -1>>)
  IN Only({ StoreLoop(S1, L, 1, {<<rval, 0>>}, FALSE) :
             L \in {InOrder(S1[<<lval, -1>>])} })

\* the loop of *VAR = *VAR: a load into (i->first, i->second) for every i of L
RECURSIVE DrefDrefLoop(_, _, _, _, _)
DrefDrefLoop(S0, L, i, rval, change) ==
  IF i > Len(L) THEN Result(S0, change)
  ELSE Only({ DrefDrefLoop(res.S, L, i + 1, rval, change \/ res.changed) :
               res \in {ApplyVarAsgnDrefVar(S0, L[i][1], rval, L[i][2])} })

\* *VAR = *VAR
ApplyDrefVarAsgnDrefVar(S0, lval, rval) ==
  LET S1 == Ensure(S0, <<lval, -1>>)
  IN Only({ DrefDrefLoop(S1, L, 1, rval, FALSE) :
             L \in {InOrder(S1[<<lval, -1>>])} })

\* DEALLOC
ApplyDealloc(S0) == Result(S0, FALSE)

\* applyRules: dispatch on the rule tag
ApplyRules(RC, S0, ndebug) ==
  CASE RC.tag = "VAR_ASGN_ALLOC" -> ApplyVarAsgnAlloc(S0, RC.l, RC.r)
    [] RC.tag = "VAR_ASGN_NULL" -> ApplyVarAsgnNull(S0, RC.l, RC.r)
    [] RC.tag = "VAR_ASGN_VAR" -> ApplyVarAsgnVar(S0, RC.l, RC.r)
    [] RC.tag = "VAR_ASGN_GEP" -> ApplyVarAsgnGep(S0, RC.l, RC.r, ndebug)
    [] RC.tag = "VAR_ASGN_REF_VAR" -> ApplyVarAsgnRefVar(S0, RC.l, RC.r)
    [] RC.tag = "VAR_ASGN_DREF_VAR" -> ApplyVarAsgnDrefVar(S0, RC.l, RC.r, -1)
    [] RC.tag = "DREF_VAR_ASGN_NULL" -> ApplyDrefVarAsgnNull(S0, RC.l, RC.r)
    [] RC.tag = "DREF_VAR_ASGN_VAR" -> ApplyDrefVarAsgnVar(S0, RC.l, RC.r)
    [] RC.tag = "DREF_VAR_ASGN_REF_VAR" ->
         ApplyDrefVarAsgnRefVar(S0, RC.l, RC.r)
    [] RC.tag = "DREF_VAR_ASGN_DREF_VAR" ->
         ApplyDrefVarAsgnDrefVar(S0, RC.l, RC.r)
    [] RC.tag = "DEALLOC" -> ApplyDealloc(S0)

\* pruneByType erasing only the keys (function, -1)
PruneByTypeOfVariables(S0) ==
  [k \in {x \in DOMAIN S0 : ~(IsFunction(x[1]) /\ x[2] = -1)} |-> S0[k]]

\* pruneByType: every entry whose key value is a function is erased
PruneByType(S0) ==
  [k \in {x \in DOMAIN S0 : ~IsFunction(x[1])} |-> S0[k]]

\* "change = applyRules(...)": the flag of the last rule only
OrChangeLast(change, applied) == applied

\* "change |= applyRules(...)"
OrChange(change, applied) == change \/ applied

\* "while (true)"
LoopAgainAlways(change) == TRUE

\* a single pass
LoopAgainNever(change) == FALSE

\* "while (change)"
LoopAgain(change) == change

\* ------------------------------------------------------------------------
\* Rule sequences
\* ------------------------------------------------------------------------

Rule(tag, l, r) == [tag |-> tag, l |-> l, r |-> r]

\* the rule of a GEP instruction: both sides name the instruction
GepRule(g) == Rule("VAR_ASGN_GEP", g, g)

\* address-of, copy, store and load, with a function among the pointees,
\* and the address of a far array element
PoolBasic ==
  << Rule("VAR_ASGN_REF_VAR", "p", "a"),
     Rule("VAR_ASGN_REF_VAR", "q", "f"),
     Rule("VAR_ASGN_VAR", "q", "p"),
     Rule("DREF_VAR_ASGN_VAR", "q", "p"),
     Rule("VAR_ASGN_DREF_VAR", "h", "q"),
     GepRule("gArrB") >>

\* allocation sites, null and the other store shapes
PoolHeap ==
  << Rule("VAR_ASGN_ALLOC", "m", "m"),
     Rule("DREF_VAR_ASGN_REF_VAR", "m", "a"),
     Rule("DREF_VAR_ASGN_NULL", "m", "null"),
     Rule("VAR_ASGN_NULL", "q", "null"),
     Rule("DREF_VAR_ASGN_DREF_VAR", "q", "m"),
     Rule("DEALLOC", "m", "m") >>

\* a self-referential structure: p = &buf; p = &p->next
PoolList ==
  << Rule("VAR_ASGN_REF_VAR", "p", "buf"),
     GepRule("gFld"),
     Rule("VAR_ASGN_VAR", "p", "gFld"),
     GepRule("gNext"),
     Rule("VAR_ASGN_VAR", "p", "gNext"),
     Rule("VAR_ASGN_REF_VAR", "p", "a") >>

\* array indices, negative indices and far struct fields
PoolOffsets ==
  << Rule("VAR_ASGN_REF_VAR", "p", "buf"),
     Rule("VAR_ASGN_REF_VAR", "p", "a"),
     Rule("VAR_ASGN_REF_VAR", "p", "s"),
     GepRule("gArrP"),
     GepRule("gBack"),
     GepRule("gBig") >>

\* GEPs over a negative index and over a function
PoolSigned ==
  << GepRule("gNeg"),
     Rule("VAR_ASGN_VAR", "p", "gNeg"),
     GepRule("gNext"),
     GepRule("gFun"),
     Rule("VAR_ASGN_VAR", "p", "gFun"),
     GepRule("gVar") >>

Pools == {PoolBasic, PoolHeap, PoolList, PoolOffsets, PoolSigned}

\* the rules of pool at the positions of I, in pool order
RECURSIVE Pick(_, _, _)
Pick(pool, I, i) ==
  IF i > Len(pool) THEN <<>>
  ELSE (IF i \in I THEN <<pool[i]>> ELSE <<>>) \o Pick(pool, I, i + 1)

\* the rule sequences the solver is run on
Programs ==
  UNION { { Pick(pool, I, 1) :
              I \in {J \in SUBSET (1 .. Len(pool)) :
                       Cardinality(J) >= 1 /\ Cardinality(J) <= MaxRules} } :
          pool \in Pools }

\* the orders a rule sequence can be emitted in
Reorderings(P) ==
  { [i \in 1 .. Len(P) |-> P[pi[i]]] : pi \in Permutations(1 .. Len(P)) }

\* ------------------------------------------------------------------------
\* The solver as a state machine
\* ------------------------------------------------------------------------

VARIABLES
  prog,          \* ProgramStructure: the rule sequence being solved
  S,             \* the points-to map
  pc,            \* position of the iterator i of fixpoint's for loop
  change,        \* fixpoint's flag
  phase,         \* "fixpoint", "prune", "done" or "aborted"
  NDEBUG,        \* whether assert is compiled out
  assertFailed,  \* an assert(I->second >= 0) has evaluated to false
  run,           \* which call this is: "first", "again" or "reordered"
  first,         \* the rule sequence of the first call
  ret,           \* the map the first call returned
  fixed          \* the map fixpoint returned to pruneByType

\* the rule extraction (ProgramStructure's constructor and CallMaps)
VARIABLES
  mod,           \* the module: its globals' rules and its instructions
  ip,            \* position of the instruction iterator of the walk
  out,           \* the rules emitted so far, each with the instruction and
                 \* the callee it was emitted for
  treated,       \* the (instruction, function) pairs the three-argument
                 \* collectCallRuleCodes was called with
  warned,        \* the static unsigned of collectCallRuleCodes
  warnings,      \* how often the vararg warning was written to errs()
  xphase         \* "idle", "globals", "walk" or "done"

\* the graph view (PointsToGraph)
VARIABLES
  Nodes,         \* the nodes in creation order: Elements and Edges of each
  category,      \* the category predicate PTC the graph was built with
  call,          \* the last call on the graph and what it returned
  hist,          \* the (pointer, location) pairs insert was called with
  flat           \* what toPointsToSets returned, if it was called

\* the result API (getPointsToSet)
VARIABLES
  got            \* the last lookup: its key, the set returned, the warning

solverVars == <<prog, S, pc, change, phase, NDEBUG, assertFailed, run, first,
                ret, fixed>>
extractVars == <<mod, ip, out, treated, warned, warnings, xphase>>
graphVars == <<Nodes, category, call, hist, flat>>
lookupVars == <<got>>

vars == <<solverVars, extractVars, graphVars, lookupVars>>

\* no extraction is under way
ExtractIdle ==
  /\ mod = [globals |-> <<>>, insts |-> <<>>]
  /\ ip = 1
  /\ out = <<>>
  /\ treated = <<>>
  /\ warned = <<0, 0>>
  /\ warnings = 0
  /\ xphase = "idle"

\* no graph is in use
GraphIdle ==
  /\ Nodes = <<>>
  /\ category = "none"
  /\ call = [op |-> "none", p |-> <<"p", -1>>, loc |-> <<"a", 0>>,
             ret |-> FALSE, n |-> 0]
  /\ hist = {}
  /\ flat = [called |-> FALSE, PS |-> EmptyMap]

\* no lookup was made
LookupIdle ==
  got = [called |-> FALSE, key |-> <<"p", -1>>, set |-> {}, warned |-> FALSE,
         before |-> EmptyMap]

Init ==
  /\ prog \in Programs
  /\ S = EmptyMap
  /\ pc = 1
  /\ change = FALSE
  /\ phase = "fixpoint"
  /\ NDEBUG \in BOOLEAN
  /\ assertFailed = FALSE
  /\ run = "first"
  /\ first = prog
  /\ ret = EmptyMap
  /\ fixed = EmptyMap
  /\ ExtractIdle
  /\ GraphIdle
  /\ LookupIdle

\* one iteration of the for loop: "change |= applyRules(*i, S, DL)"
RuleStep(tag) ==
  /\ phase = "fixpoint"
  /\ pc <= Len(prog)
  /\ prog[pc].tag = tag
  /\ \E res \in {ApplyRules(prog[pc], S, NDEBUG)} :
       /\ S' = res.S
       /\ assertFailed' = (assertFailed \/ res.failed)
       /\ IF res.aborted
            THEN phase' = "aborted" /\ UNCHANGED <<pc, change>>
            ELSE /\ phase' = phase
                 /\ pc' = pc + 1
                 /\ change' = OrChange(change, res.changed)
  /\ UNCHANGED <<prog, NDEBUG, run, first, ret, fixed>>
  /\ UNCHANGED <<extractVars, graphVars, lookupVars>>

VarAsgnAlloc == RuleStep("VAR_ASGN_ALLOC")
VarAsgnNull == RuleStep("VAR_ASGN_NULL")
VarAsgnVar == RuleStep("VAR_ASGN_VAR")
VarAsgnGep == RuleStep("VAR_ASGN_GEP")
VarAsgnRefVar == RuleStep("VAR_ASGN_REF_VAR")
VarAsgnDrefVar == RuleStep("VAR_ASGN_DREF_VAR")
DrefVarAsgnNull == RuleStep("DREF_VAR_ASGN_NULL")
DrefVarAsgnVar == RuleStep("DREF_VAR_ASGN_VAR")
DrefVarAsgnRefVar == RuleStep("DREF_VAR_ASGN_REF_VAR")
DrefVarAsgnDrefVar == RuleStep("DREF_VAR_ASGN_DREF_VAR")
Dealloc == RuleStep("DEALLOC")

\* "while (change)" holds: the next pass starts with change = false
NextPass ==
  /\ phase = "fixpoint"
  /\ pc > Len(prog)
  /\ LoopAgain(change)
  /\ pc' = 1
  /\ change' = FALSE
  /\ UNCHANGED <<prog, S, phase, NDEBUG, assertFailed, run, first, ret, fixed>>
  /\ UNCHANGED <<extractVars, graphVars, lookupVars>>

\* "while (change)" fails: fixpoint returns S
ExitLoop ==
  /\ phase = "fixpoint"
  /\ pc > Len(prog)
  /\ ~LoopAgain(change)
  /\ phase' = "prune"
  /\ fixed' = S
  /\ UNCHANGED <<prog, S, pc, change, NDEBUG, assertFailed, run, first, ret>>
  /\ UNCHANGED <<extractVars, graphVars, lookupVars>>

\* computePointsToSets returns pruneByType(fixpoint(P, S))
Prune ==
  /\ phase = "prune"
  /\ S' = PruneByType(S)
  /\ phase' = "done"
  /\ ret' = IF run = "first" THEN S' ELSE ret
  /\ UNCHANGED <<prog, pc, change, NDEBUG, assertFailed, run, first, fixed>>
  /\ UNCHANGED <<extractVars, graphVars, lookupVars>>

\* computePointsToSets is called again on the map it returned
CallAgain ==
  /\ phase = "done"
  /\ run = "first"
  /\ run' = "again"
  /\ phase' = "fixpoint"
  /\ pc' = 1
  /\ change' = FALSE
  /\ UNCHANGED <<prog, S, NDEBUG, assertFailed, first, ret, fixed>>
  /\ UNCHANGED <<extractVars, graphVars, lookupVars>>

\* computePointsToSets is called on an empty map with the same rules in
\* some order
CallReordered ==
  /\ phase = "done"
  /\ run = "first"
  /\ prog' \in Reorderings(prog)
  /\ S' = EmptyMap
  /\ run' = "reordered"
  /\ phase' = "fixpoint"
  /\ pc' = 1
  /\ change' = FALSE
  /\ UNCHANGED <<NDEBUG, assertFailed, first, ret, fixed>>
  /\ UNCHANGED <<extractVars, graphVars, lookupVars>>

\* maps a caller may pass to computePointsToSets: the empty map, one where
\* p already points to four places of buf, one with a cycle through a
Seeds ==
  { EmptyMap,
    (<<"p", -1>> :> {<<"buf", 0>>, <<"buf", 16>>, <<"buf", 32>>,
                     <<"buf", 48>>}),
    (<<"p", -1>> :> {<<"a", 0>>}) @@ (<<"a", 0>> :> {<<"a", 0>>, <<"m", 0>>}) }

\* the first call is made on any of these maps
InitAny ==
  /\ prog \in Programs
  /\ S \in Seeds
  /\ pc = 1
  /\ change = FALSE
  /\ phase = "fixpoint"
  /\ NDEBUG \in BOOLEAN
  /\ assertFailed = FALSE
  /\ run = "first"
  /\ first = prog
  /\ ret = EmptyMap
  /\ fixed = EmptyMap
  /\ ExtractIdle
  /\ GraphIdle
  /\ LookupIdle

\* the steps of one call of computePointsToSets
Solve ==
  \/ VarAsgnAlloc \/ VarAsgnNull \/ VarAsgnVar \/ VarAsgnGep
  \/ VarAsgnRefVar \/ VarAsgnDrefVar \/ DrefVarAsgnNull \/ DrefVarAsgnVar
  \/ DrefVarAsgnRefVar \/ DrefVarAsgnDrefVar \/ Dealloc
  \/ NextPass \/ ExitLoop \/ Prune

Next == Solve \/ CallAgain \/ CallReordered

Spec == Init /\ [][Next]_vars

\* the analysis is single-threaded and runs to completion
FairSpec == Spec /\ WF_vars(Solve)

SpecAny == InitAny /\ [][Next]_vars

FairSpecAny == SpecAny /\ WF_vars(Solve)

TypeOK ==
  /\ prog \in Reorderings(first)
  /\ pc \in 1 .. Len(prog) + 1
  /\ phase \in {"fixpoint", "prune", "done", "aborted"}
  /\ run \in {"first", "again", "reordered"}
  /\ \A k \in DOMAIN S : k[1] \in Values /\ \A e \in S[k] : e[1] \in Values

\* the solver is not running
SolverIdle ==
  /\ prog = <<>>
  /\ S = EmptyMap
  /\ pc = 1
  /\ change = FALSE
  /\ phase = "idle"
  /\ assertFailed = FALSE
  /\ run = "none"
  /\ first = <<>>
  /\ ret = EmptyMap
  /\ fixed = EmptyMap

\* one pass of fixpoint's for loop over P from rule i on
RECURSIVE PassFrom(_, _, _, _, _)
PassFrom(P, S0, i, chg, ndebug) ==
  IF i > Len(P) THEN [S |-> S0, changed |-> chg]
  ELSE Only({ PassFrom(P, res.S, i + 1, OrChange(chg, res.changed), ndebug) :
               res \in {ApplyRules(P[i], S0, ndebug)} })

\* fixpoint: passes until one reports no change
RECURSIVE Fixpoint(_, _, _)
Fixpoint(P, S0, ndebug) ==
  Only({ IF LoopAgain(pass.changed) THEN Fixpoint(P, pass.S, ndebug)
                                    ELSE pass.S :
          pass \in {PassFrom(P, S0, 1, FALSE, ndebug)} })

\* computePointsToSets as a function of its arguments
ComputePointsToSets(P, S0, ndebug) == PruneByType(Fixpoint(P, S0, ndebug))

\* ------------------------------------------------------------------------
\* Rule extraction: the modules
\* ------------------------------------------------------------------------

IsPointerTy(t) == t \in {"i8p", "i32p"}

FunTy(retTy, params, isVarArg) ==
  [ret |-> retTy, params |-> params, isVarArg |-> isVarArg]

\* the functions of every module, in module order: type, whether the module
\* defines them, their formal arguments, and how the memory-management
\* classification sees them
Function ==
  [ f      |-> [ty |-> FunTy("i32", <<"i32p">>, FALSE), defined |-> TRUE,
                args |-> <<"fx">>, memMan |-> FALSE, alloc |-> FALSE],
    g      |-> [ty |-> FunTy("i32", <<"i32p">>, FALSE), defined |-> TRUE,
                args |-> <<"gx">>, memMan |-> FALSE, alloc |-> FALSE],
    getS   |-> [ty |-> FunTy("i32p", <<>>, FALSE), defined |-> TRUE,
                args |-> <<>>, memMan |-> FALSE, alloc |-> FALSE],
    dup    |-> [ty |-> FunTy("i8p", <<"i8p">>, FALSE), defined |-> TRUE,
                args |-> <<"dupx">>, memMan |-> FALSE, alloc |-> FALSE],
    idp    |-> [ty |-> FunTy("i32p", <<"i32p">>, FALSE), defined |-> TRUE,
                args |-> <<"idpx">>, memMan |-> FALSE, alloc |-> FALSE],
    vlog   |-> [ty |-> FunTy("i32", <<"i32p">>, TRUE), defined |-> TRUE,
                args |-> <<"vfmt">>, memMan |-> FALSE, alloc |-> FALSE],
    w      |-> [ty |-> FunTy("i32", <<"i32", "i32p">>, FALSE),
                defined |-> TRUE, args |-> <<"wn", "wp">>,
                memMan |-> FALSE, alloc |-> FALSE],
    malloc |-> [ty |-> FunTy("i8p", <<"i64">>, FALSE), defined |-> FALSE,
                args |-> <<>>, memMan |-> TRUE, alloc |-> TRUE],
    free   |-> [ty |-> FunTy("void", <<"i8p">>, FALSE), defined |-> FALSE,
                args |-> <<>>, memMan |-> TRUE, alloc |-> FALSE] ]

\* Module::begin() .. end()
FunctionOrder ==
  <<"f", "g", "getS", "dup", "idp", "vlog", "w", "malloc", "free">>

\* the values whose type is a pointer type: all but the integer constant
\* and the integer formal of w
IsPointerValue(v) == ValueKind[v] # "int" /\ v # "wn"

MemoryManStuff(v) == v \in DOMAIN Function /\ Function[v].memMan
IsMemoryAllocation(v) == v \in DOMAIN Function /\ Function[v].alloc

\* an instruction; the fields a kind does not use keep these values
NoInst ==
  [kind |-> "other", id |-> "none", fn |-> "f", callee |-> "none",
   proto |-> FunTy("void", <<>>, FALSE), args |-> <<>>, asm |-> FALSE,
   val |-> "none", rules |-> <<>>]

\* id = call callee(args) inside fn
DirectCall(id, fn, callee, args) ==
  [NoInst EXCEPT !.kind = "call", !.id = id, !.fn = fn, !.callee = callee,
                 !.proto = Function[callee].ty, !.args = args]

\* id = call (*pointer)(args) inside fn, the pointer being to a proto
IndirectCall(id, fn, proto, args) ==
  [NoInst EXCEPT !.kind = "call", !.id = id, !.fn = fn, !.proto = proto,
                 !.args = args]

\* id = call asm "..." inside fn
AsmCall(id, fn) ==
  [NoInst EXCEPT !.kind = "call", !.id = id, !.fn = fn, !.asm = TRUE,
                 !.proto = FunTy("i32", <<>>, FALSE)]

\* ret val inside fn; val = "none" is ret void
Return(fn, val) == [NoInst EXCEPT !.kind = "ret", !.fn = fn, !.val = val]

\* store val, ... inside fn
Store(fn, val) == [NoInst EXCEPT !.kind = "store", !.fn = fn, !.val = val]

\* an instruction isPointerManipulation accepts, with the rules toRuleCode
\* emits for it
PointerManipulation(fn, rules) ==
  [NoInst EXCEPT !.kind = "ptr", !.fn = fn, !.rules = rules]

IsInlineAssembly(c) == c.asm

\* a direct call to a memory-management function
CallToMemoryManStuff(c) == c.callee # "none" /\ MemoryManStuff(c.callee)

\* direct calls: a call of a function that returns the address of s, the
\* shapes of an argument, a return of an integer
InstsDirect ==
  << DirectCall("c1", "f", "getS", <<>>),
     DirectCall("c2", "f", "f", <<"a">>),
     DirectCall("c3", "f", "f", <<"p">>),
     DirectCall("c4", "f", "f", <<"null">>),
     Return("f", "one"),
     DirectCall("c5", "g", "idp", <<"q">>),
     Return("getS", "s") >>

\* calls through pointers: two candidates of one type, a prototype whose
\* pointer types differ from those of a function, and the returns into them
InstsIndirect ==
  << IndirectCall("c1", "f", FunTy("i32", <<"i32p">>, FALSE), <<"a">>),
     IndirectCall("c2", "f", FunTy("i8p", <<"i8p">>, FALSE), <<"p">>),
     IndirectCall("c5", "g", FunTy("i32p", <<>>, FALSE), <<>>),
     DirectCall("c6", "g", "idp", <<"q">>),
     Return("getS", "s"),
     Return("dup", "dupx"),
     Return("idp", "idpx") >>

\* more actual than formal arguments, and fewer; a return of nothing
InstsVarArg ==
  << DirectCall("c1", "f", "vlog", <<"a", "p", "q">>),
     DirectCall("c2", "f", "vlog", <<"p", "null">>),
     DirectCall("c3", "f", "w", <<"one", "p">>),
     IndirectCall("c4", "f", FunTy("i32", <<"i32p">>, TRUE), <<"p", "q">>),
     IndirectCall("c5", "g", FunTy("i32", <<"i32">>, TRUE), <<"one">>),
     DirectCall("c6", "g", "vlog", <<"q">>),
     Return("g", "none") >>

\* memory management, inline assembly and an instruction with a rule of
\* its own
InstsMemMan ==
  << Store("f", "malloc"),
     Store("f", "free"),
     Store("f", "a"),
     IndirectCall("c1", "f", FunTy("i8p", <<"i64">>, FALSE), <<"one">>),
     IndirectCall("c3", "f", FunTy("void", <<"i8p">>, FALSE), <<"p">>),
     AsmCall("c4", "g"),
     PointerManipulation("g", <<Rule("VAR_ASGN_REF_VAR", "p", "a")>>) >>

InstPools == {InstsDirect, InstsIndirect, InstsVarArg, InstsMemMan}

\* the rules of the initialized pointer globals of a module
GlobalRules == { <<>>, <<Rule("VAR_ASGN_REF_VAR", "buf", "a")>> }

\* the modules a ProgramStructure is built from
Modules ==
  { [globals |-> gl, insts |-> Pick(pool, I, 1)] :
      gl \in GlobalRules,
      pool \in InstPools,
      I \in {J \in SUBSET (1 .. 7) :
               Cardinality(J) >= 1 /\ Cardinality(J) <= MaxInsts} }

\* ------------------------------------------------------------------------
\* Rule extraction: CallMaps
\* ------------------------------------------------------------------------

Min(x, y) == IF x < y THEN x ELSE y

\* the positions 1 .. n as a sequence
Upto(n) == [i \in 1 .. n |-> i]

\* the functions insts of function fn stores as values that are
\* memory-management symbols
StoredMemMan(insts, fn) ==
  LET st == SelectSeq(insts, LAMBDA i :
              /\ i.kind = "store"
              /\ i.fn = fn
              /\ HasExtraReference(i.val)
              /\ MemoryManStuff(i.val))
  IN [k \in 1 .. Len(st) |-> st[k].val]

\* buildCallMaps, FM: the functions in insertion order
RECURSIVE BuildFM(_, _)
BuildFM(insts, k) ==
  IF k > Len(FunctionOrder) THEN <<>>
  ELSE LET fn == FunctionOrder[k]
       IN (IF Function[fn].defined THEN <<fn>> ELSE <<>>)
            \o StoredMemMan(insts, fn) \o BuildFM(insts, k + 1)

\* FM.lower_bound(retTy) .. FM.upper_bound(retTy)
FunctionsOf(insts, retTy) ==
  SelectSeq(BuildFM(insts, 1), LAMBDA fn : Function[fn].ty.ret = retTy)

\* buildCallMaps, CM: the calls that are neither inline assembly nor calls
\* to memory management, in insertion order
BuildCM(insts) ==
  SelectSeq(insts, LAMBDA i :
    i.kind = "call" /\ ~IsInlineAssembly(i) /\ ~CallToMemoryManStuff(i))

\* CM.lower_bound(retTy) .. CM.upper_bound(retTy)
CallsOf(insts, retTy) ==
  SelectSeq(BuildCM(insts), LAMBDA c : c.proto.ret = retTy)

\* argPassRuleCode without the test for a null actual
ArgPassRuleCodeByReference(l, r) ==
  IF HasExtraReference(l)
    THEN IF HasExtraReference(r) THEN Rule("VAR_ASGN_VAR", l, r)
                                 ELSE Rule("VAR_ASGN_DREF_VAR", l, r)
    ELSE IF HasExtraReference(r) THEN Rule("VAR_ASGN_REF_VAR", l, r)
                                 ELSE Rule("VAR_ASGN_VAR", l, r)

\* argPassRuleCode
ArgPassRuleCode(l, r) ==
  IF IsNull(r) THEN Rule("VAR_ASGN_NULL", l, r)
  ELSE IF HasExtraReference(l)
    THEN IF HasExtraReference(r) THEN Rule("VAR_ASGN_VAR", l, r)
                                 ELSE Rule("VAR_ASGN_DREF_VAR", l, r)
    ELSE IF HasExtraReference(r) THEN Rule("VAR_ASGN_REF_VAR", l, r)
                                 ELSE Rule("VAR_ASGN_VAR", l, r)

\* compatibleTypes
CompatibleTypes(t1, t2) ==
  IF IsPointerTy(t1) /\ IsPointerTy(t2) THEN TRUE ELSE t1 = t2

\* compatibleFunTypes
CompatibleFunTypes(f1, f2) ==
  LET params1 == Len(f1.params)
      params2 == Len(f2.params)
  IN IF ~f1.isVarArg /\ ~f2.isVarArg /\ params1 # params2 THEN FALSE
     ELSE IF ~CompatibleTypes(f1.ret, f2.ret) THEN FALSE
     ELSE \A i \in 1 .. Min(params1, params2) :
            CompatibleTypes(f1.params[i], f2.params[i])

\* warned++ on an unsigned of 32 bits, kept as <<high, low>> halves of 16
IncU32(u) ==
  IF u[2] < 65535 THEN <<u[1], u[2] + 1>>
  ELSE IF u[1] < 65535 THEN <<u[1] + 1, 0>>
  ELSE <<0, 0>>

\* u < n for a small n
LtU32(u, n) == u[1] = 0 /\ u[2] < n

\* what an extraction step works on: the container, the calls made to the
\* three-argument collectCallRuleCodes, the static counter, the warnings
\* written, and whether an assert ended the run
Sink(o, t, wd, ws, ab) ==
  [out |-> o, treated |-> t, warned |-> wd, warnings |-> ws, aborted |-> ab]

\* an emitted rule with the instruction (position at) and callee it is for
Emitted(rule, at, fn) == [rule |-> rule, at |-> at, fn |-> fn]

\* the loop of lines 85-87: a rule for every pointer formal that has an
\* actual
ArgRules(c, f, at) ==
  LET n  == Min(Len(Function[f].args), Len(c.args))
      ix == SelectSeq(Upto(n), LAMBDA i : IsPointerValue(Function[f].args[i]))
  IN [k \in 1 .. Len(ix) |->
        Emitted(ArgPassRuleCode(Function[f].args[ix[k]], c.args[ix[k]]),
                at, f)]

\* "warned < 3"
WarnFirstThree(u) == LtU32(u, 3)

\* collectCallRuleCodes(c, f, out)
CollectCallRuleCodesFor(c, f, at, sk, ndebug) ==
  LET t2 == Append(sk.treated, <<at, f>>)
  IN IF IsInlineAssembly(c) /\ ~ndebug
       THEN Sink(sk.out, t2, sk.warned, sk.warnings, TRUE)
     ELSE IF MemoryManStuff(f) /\ ~IsMemoryAllocation(f)
       THEN Sink(sk.out, t2, sk.warned, sk.warnings, sk.aborted)
     ELSE IF IsMemoryAllocation(f)
       THEN Sink(Append(sk.out,
                        Emitted(Rule("VAR_ASGN_ALLOC", c.id, c.id), at, f)),
                 t2, sk.warned, sk.warnings, sk.aborted)
     ELSE LET i == Min(Len(Function[f].args), Len(c.args))
              excess == i < Len(c.args)
          IN Sink(sk.out \o ArgRules(c, f, at), t2,
                  IF excess THEN IncU32(sk.warned) ELSE sk.warned,
                  IF excess /\ WarnFirstThree(sk.warned)
                    THEN sk.warnings + 1 ELSE sk.warnings,
                  sk.aborted)

\* the loop over FM of the indirect collectCallRuleCodes
RECURSIVE IndirectLoop(_, _, _, _, _, _)
IndirectLoop(c, funs, k, at, sk, ndebug) ==
  IF k > Len(funs) \/ sk.aborted THEN sk
  ELSE Only({ IndirectLoop(c, funs, k + 1, at, sk2, ndebug) :
               sk2 \in { IF CompatibleFunTypes(c.proto, Function[funs[k]].ty)
                           THEN CollectCallRuleCodesFor(c, funs[k], at, sk,
                                                        ndebug)
                           ELSE sk } })

\* collectCallRuleCodes(c, out)
CollectCallRuleCodes(insts, c, at, sk, ndebug) ==
  IF c.callee # "none"
    THEN CollectCallRuleCodesFor(c, c.callee, at, sk, ndebug)
    ELSE IndirectLoop(c, FunctionsOf(insts, c.proto.ret), 1, at, sk, ndebug)

\* collectReturnRuleCodes emitting for every direct call of CM
CollectReturnRuleCodesAnyCallee(insts, r, at, sk) ==
  IF r.val = "none" \/ ~IsPointerValue(r.val) THEN sk
  ELSE LET funTy == Function[r.fn].ty
           hit == SelectSeq(CallsOf(insts, funTy.ret), LAMBDA CI :
                    IF CI.callee # "none" THEN TRUE
                    ELSE CompatibleFunTypes(funTy, CI.proto))
       IN [sk EXCEPT !.out = sk.out \o
             [k \in 1 .. Len(hit) |->
                Emitted(ArgPassRuleCode(hit[k].id, r.val), at, r.fn)]]

\* collectReturnRuleCodes
CollectReturnRuleCodes(insts, r, at, sk) ==
  IF r.val = "none" \/ ~IsPointerValue(r.val) THEN sk
  ELSE LET funTy == Function[r.fn].ty
           hit == SelectSeq(CallsOf(insts, funTy.ret), LAMBDA CI :
                    IF CI.callee # "none" THEN r.fn = CI.callee
                    ELSE CompatibleFunTypes(funTy, CI.proto))
       IN [sk EXCEPT !.out = sk.out \o
             [k \in 1 .. Len(hit) |->
                Emitted(ArgPassRuleCode(hit[k].id, r.val), at, r.fn)]]

\* ------------------------------------------------------------------------
\* Rule extraction: ProgramStructure's constructor as a state machine
\* ------------------------------------------------------------------------

\* values of the static counter and of the number of warnings written when
\* a ProgramStructure is built: the counter lives as long as the process,
\* which may have built others before
WarnedAtStart ==
  { [warned |-> <<0, 0>>, warnings |-> 0],
    [warned |-> <<0, 1>>, warnings |-> 1],
    [warned |-> <<0, 2>>, warnings |-> 2],
    [warned |-> <<0, 3>>, warnings |-> 3],
    [warned |-> <<65535, 65534>>, warnings |-> 3],
    [warned |-> <<65535, 65535>>, warnings |-> 3] }

ExtractInit ==
  /\ SolverIdle
  /\ NDEBUG \in BOOLEAN
  /\ GraphIdle
  /\ LookupIdle
  /\ mod \in Modules
  /\ ip = 1
  /\ out = <<>>
  /\ treated = <<>>
  /\ \E st \in WarnedAtStart : warned = st.warned /\ warnings = st.warnings
  /\ xphase = "globals"

\* the instruction the walk is at
Cur == mod.insts[ip]

\* the sink as the step finds it
Here == Sink(out, treated, warned, warnings, FALSE)

\* the step leaves the sink as sk and moves to the next instruction
Advance(sk) ==
  /\ out' = sk.out
  /\ treated' = sk.treated
  /\ warned' = sk.warned
  /\ warnings' = sk.warnings
  /\ IF sk.aborted THEN xphase' = "aborted" /\ ip' = ip
                   ELSE xphase' = xphase /\ ip' = ip + 1
  /\ UNCHANGED <<mod, solverVars, graphVars, lookupVars>>

AtInst == xphase = "walk" /\ ip <= Len(mod.insts)

\* the loop over the globals: toRuleCode for every pointer initialization
WalkGlobals ==
  /\ xphase = "globals"
  /\ out' = out \o [k \in 1 .. Len(mod.globals) |->
                      Emitted(mod.globals[k], 0, "none")]
  /\ xphase' = "walk"
  /\ UNCHANGED <<mod, ip, treated, warned, warnings>>
  /\ UNCHANGED <<solverVars, graphVars, lookupVars>>

\* isPointerManipulation: toRuleCode emits the rules of the instruction
WalkPointerManipulation ==
  /\ AtInst
  /\ Cur.kind = "ptr"
  /\ Advance([Here EXCEPT !.out = out \o
       [k \in 1 .. Len(Cur.rules) |-> Emitted(Cur.rules[k], ip, "none")]])

\* a call of a known function
WalkDirectCall ==
  /\ AtInst
  /\ Cur.kind = "call"
  /\ ~IsInlineAssembly(Cur)
  /\ Cur.callee # "none"
  /\ \E sk \in {CollectCallRuleCodes(mod.insts, Cur, ip, Here, NDEBUG)} :
       Advance(sk)

\* a call through a pointer
WalkIndirectCall ==
  /\ AtInst
  /\ Cur.kind = "call"
  /\ ~IsInlineAssembly(Cur)
  /\ Cur.callee = "none"
  /\ \E sk \in {CollectCallRuleCodes(mod.insts, Cur, ip, Here, NDEBUG)} :
       Advance(sk)

\* "if (!isInlineAssembly(c))" fails: nothing is done for the call
WalkInlineAssembly ==
  /\ AtInst
  /\ Cur.kind = "call"
  /\ IsInlineAssembly(Cur)
  /\ Advance(Here)

\* a return instruction
WalkReturn ==
  /\ AtInst
  /\ Cur.kind = "ret"
  /\ \E sk \in {CollectReturnRuleCodes(mod.insts, Cur, ip, Here)} :
       Advance(sk)

\* any other instruction
WalkOther ==
  /\ AtInst
  /\ Cur.kind \notin {"ptr", "call", "ret"}
  /\ Advance(Here)

\* the constructor returns
EndWalk ==
  /\ xphase = "walk"
  /\ ip > Len(mod.insts)
  /\ xphase' = "done"
  /\ UNCHANGED <<mod, ip, out, treated, warned, warnings>>
  /\ UNCHANGED <<solverVars, graphVars, lookupVars>>

ExtractNext ==
  \/ WalkGlobals \/ WalkPointerManipulation \/ WalkDirectCall
  \/ WalkIndirectCall \/ WalkInlineAssembly \/ WalkReturn \/ WalkOther
  \/ EndWalk

ExtractSpec == ExtractInit /\ [][ExtractNext]_vars

\* the container of the ProgramStructure
RulesOut == [k \in 1 .. Len(out) |-> out[k].rule]

ExtractTypeOK ==
  /\ xphase \in {"globals", "walk", "done", "aborted"}
  /\ ip \in 1 .. Len(mod.insts) + 1
  /\ warnings \in Nat
  /\ \A k \in 1 .. Len(out) :
       out[k].rule.l \in Values /\ out[k].rule.r \in Values

\* ------------------------------------------------------------------------
\* The graph view: PointsToGraph
\* ------------------------------------------------------------------------

\* Nodes is the std::set<Node *> as a sequence in the order of the node
\* addresses, the order begin() .. end() visits; an edge is the position of
\* its target.  A node created by new lands below or above the nodes there
\* are, so that every two nodes occur in both orders.

\* the category predicates a graph is built with: pointees of the same
\* value, or every pointee a category of its own
Categories == {"value", "pointee"}

\* PTC->areInSameCategory
AreInSameCategory(cat, x, y) ==
  IF cat = "value" THEN x[1] = y[1] ELSE x = y

\* the pointers and locations the graph operations are called with
GraphPointers == {<<"p", -1>>, <<"a", 0>>}
GraphLocations == {<<"a", 0>>, <<"a", 8>>, <<"buf", 0>>}

\* *(set.cbegin()): the least element of a non-empty set of pointees
First(set) == CHOOSE x \in set : \A y \in set \ {x} : Less(x, y)

\* the least member of a non-empty set of positions
Least(set) == CHOOSE x \in set : \A y \in set : x <= y

\* the nodes after new Node(p) has been inserted at position k
NewNodeAt(N, k, p) ==
  LET Moved(n) == [n EXCEPT !.Edges = {IF e >= k THEN e + 1 ELSE e : e \in @}]
  IN [i \in 1 .. Len(N) + 1 |->
        IF i < k THEN Moved(N[i])
        ELSE IF i = k THEN [Elements |-> {p}, Edges |-> {}]
        ELSE Moved(N[i - 1])]

\* where the node at position i is after an insertion at position k
After(i, k) == IF i >= k THEN i + 1 ELSE i

\* findNode: the first node that contains p, 0 for NULL
FindNode(N, p) ==
  LET has == {i \in 1 .. Len(N) : p \in N[i].Elements}
  IN IF has = {} THEN 0 ELSE Least(has)

\* shouldAddTo returning the first successor of root, whatever its category
ShouldAddToAnySuccessor(N, cat, root, p) ==
  IF N[root].Edges = {} THEN 0 ELSE Least(N[root].Edges)

\* shouldAddTo: the first successor of root whose first element is in the
\* category of p, 0 for NULL
ShouldAddTo(N, cat, root, p) ==
  LET fit == {i \in N[root].Edges :
                AreInSameCategory(cat, First(N[i].Elements), p)}
  IN IF fit = {} THEN 0 ELSE Least(fit)

\* Node::addNeighbour
AddNeighbour(N, from, to) ==
  [N EXCEPT ![from].Edges = @ \cup {to}]

\* the outcome of a graph operation
GraphResult(N, changed) == [N |-> N, ret |-> changed]

\* insert(p, location); kFrom and kTo are the places new nodes land at
GraphInsert(N, cat, p, location, kFrom, kTo) ==
  LET found == FindNode(N, p)
      N1    == IF found = 0 THEN NewNodeAt(N, kFrom, p) ELSE N
      From  == IF found = 0 THEN kFrom ELSE found
      To    == ShouldAddTo(N1, cat, From, location)
  IN IF To # 0
       THEN GraphResult([N1 EXCEPT ![To].Elements = @ \cup {location}],
                        location \notin N1[To].Elements)
     ELSE IF FindNode(N1, location) # 0
       THEN GraphResult(AddNeighbour(N1, From, FindNode(N1, location)), FALSE)
     ELSE GraphResult(AddNeighbour(NewNodeAt(N1, kTo, location),
                                   After(From, kTo), kTo),
                      TRUE)

\* the loop of insertDerefPointee over the edges of LocationNode; cur is
\* the edge visited last
RECURSIVE DerefPointeeLoop(_, _, _, _, _)
DerefPointeeLoop(N, PointerNode, LocationNode, cur, changed) ==
  LET rest == {e \in N[LocationNode].Edges : e > cur}
  IN IF rest = {} THEN GraphResult(N, changed)
     ELSE LET I == Least(rest)
          IN DerefPointeeLoop(AddNeighbour(N, PointerNode, I), PointerNode,
                              LocationNode, I,
                              changed \/ I \notin N[PointerNode].Edges)

\* insertDerefPointee creating the node of p before it looks at the
\* neighbours of LocationNode
GraphInsertDerefPointeeEnsuresFirst(N, p, location, k) ==
  LET LocationNode == FindNode(N, location)
  IN IF LocationNode = 0 THEN GraphResult(N, FALSE)
     ELSE IF FindNode(N, p) # 0
       THEN DerefPointeeLoop(N, FindNode(N, p), LocationNode, 0, FALSE)
     ELSE DerefPointeeLoop(NewNodeAt(N, k, p), k, After(LocationNode, k), 0,
                           FALSE)

\* insertDerefPointee(p, location); k is the place a new node lands at
GraphInsertDerefPointee(N, p, location, k) ==
  LET LocationNode == FindNode(N, location)
  IN IF LocationNode = 0 THEN GraphResult(N, FALSE)
     ELSE IF N[LocationNode].Edges = {} THEN GraphResult(N, FALSE)
     ELSE IF FindNode(N, p) # 0
       THEN DerefPointeeLoop(N, FindNode(N, p), LocationNode, 0, FALSE)
     ELSE DerefPointeeLoop(NewNodeAt(N, k, p), k, After(LocationNode, k), 0,
                           FALSE)

\* the loop of insertDerefPointer over the edges of PointerNode
RECURSIVE DerefPointerLoop(_, _, _, _, _)
DerefPointerLoop(N, PointerNode, LocationNode, cur, changed) ==
  LET rest == {e \in N[PointerNode].Edges : e > cur}
  IN IF rest = {} THEN GraphResult(N, changed)
     ELSE LET I == Least(rest)
          IN DerefPointerLoop(AddNeighbour(N, I, LocationNode), PointerNode,
                              LocationNode, I,
                              changed \/ LocationNode \notin N[I].Edges)

\* insertDerefPointer(p, location); k is the place a new node lands at
GraphInsertDerefPointer(N, p, location, k) ==
  LET PointerNode == FindNode(N, p)
  IN IF PointerNode = 0 THEN GraphResult(N, FALSE)
     ELSE IF N[PointerNode].Edges = {} THEN GraphResult(N, FALSE)
     ELSE IF FindNode(N, location) # 0
       THEN DerefPointerLoop(N, PointerNode, FindNode(N, location), 0, FALSE)
     ELSE DerefPointerLoop(NewNodeAt(N, k, location), After(PointerNode, k),
                           k, 0, FALSE)

\* Node::convertToPointsToSets reading the first successor only
ConvertFirstEdge(N, i, PS) ==
  LET add == N[Least(N[i].Edges)].Elements
  IN [k \in DOMAIN PS \cup N[i].Elements |->
        (IF k \in N[i].Elements THEN add ELSE {}) \cup At(PS, k)]

\* Node::convertToPointsToSets: for every element of node i, the elements
\* of every successor are added to PS[element]
ConvertToPointsToSets(N, i, PS) ==
  LET add == UNION {N[e].Elements : e \in N[i].Edges}
  IN [k \in DOMAIN PS \cup N[i].Elements |->
        (IF k \in N[i].Elements THEN add ELSE {}) \cup At(PS, k)]

\* toPointsToSets from node i on
RECURSIVE ToPointsToSetsFrom(_, _, _)
ToPointsToSetsFrom(N, i, PS) ==
  IF i > Len(N) THEN PS
  ELSE ToPointsToSetsFrom(N, i + 1,
         IF N[i].Edges # {} THEN ConvertToPointsToSets(N, i, PS) ELSE PS)

\* toPointsToSets(PS)
ToPointsToSets(N, PS) == ToPointsToSetsFrom(N, 1, PS)

\* a graph is constructed with a category predicate
GraphInit ==
  /\ SolverIdle
  /\ NDEBUG = TRUE
  /\ ExtractIdle
  /\ LookupIdle
  /\ Nodes = <<>>
  /\ category \in Categories
  /\ call = [op |-> "none", p |-> <<"p", -1>>, loc |-> <<"a", 0>>,
             ret |-> FALSE, n |-> 0]
  /\ hist = {}
  /\ flat = [called |-> FALSE, PS |-> EmptyMap]

\* the call op(p, loc) has left the graph as res.N and returned res.ret
Called(op, p, loc, res) ==
  /\ Nodes' = res.N
  /\ call' = [op |-> op, p |-> p, loc |-> loc, ret |-> res.ret,
              n |-> call.n + 1]
  /\ flat' = [called |-> FALSE, PS |-> EmptyMap]
  /\ UNCHANGED <<category, solverVars, extractVars, lookupVars>>

\* the places a new node lands at when there are n nodes
Places(n) == {1, n + 1}

Insert ==
  /\ category # "none"
  /\ call.n < MaxOps
  /\ \E p \in GraphPointers, loc \in GraphLocations :
       \E kFrom \in Places(Len(Nodes)) :
         \E kTo \in Places(IF FindNode(Nodes, p) = 0 THEN Len(Nodes) + 1
                                                      ELSE Len(Nodes)) :
         /\ FindNode(Nodes, p) # 0 => kFrom = 1
         /\ Called("insert", p, loc,
                   GraphInsert(Nodes, category, p, loc, kFrom, kTo))
         /\ hist' = hist \cup {<<p, loc>>}

InsertDerefPointee ==
  /\ category # "none"
  /\ call.n < MaxOps
  /\ \E p \in GraphPointers, loc \in GraphLocations \cup GraphPointers :
       \E k \in Places(Len(Nodes)) :
         /\ FindNode(Nodes, p) # 0 => k = 1
         /\ Called("insertDerefPointee", p, loc,
                   GraphInsertDerefPointee(Nodes, p, loc, k))
         /\ UNCHANGED hist

InsertDerefPointer ==
  /\ category # "none"
  /\ call.n < MaxOps
  /\ \E p \in GraphPointers, loc \in GraphLocations :
       \E k \in Places(Len(Nodes)) :
         /\ FindNode(Nodes, loc) # 0 => k = 1
         /\ Called("insertDerefPointer", p, loc,
                   GraphInsertDerefPointer(Nodes, p, loc, k))
         /\ UNCHANGED hist

\* toPointsToSets on an empty map
Flatten ==
  /\ category # "none"
  /\ ~flat.called
  /\ flat' = [called |-> TRUE, PS |-> ToPointsToSets(Nodes, EmptyMap)]
  /\ UNCHANGED <<Nodes, category, call, hist>>
  /\ UNCHANGED <<solverVars, extractVars, lookupVars>>

GraphNext == Insert \/ InsertDerefPointee \/ InsertDerefPointer \/ Flatten

GraphSpec == GraphInit /\ [][GraphNext]_vars

GraphTypeOK ==
  /\ category \in Categories
  /\ call.n \in 0 .. MaxOps
  /\ \A i \in 1 .. Len(Nodes) :
       /\ Nodes[i].Edges \subseteq 1 .. Len(Nodes)
       /\ Nodes[i].Elements \subseteq GraphPointers \cup GraphLocations

\* ------------------------------------------------------------------------
\* The result API: getPointsToSet
\* ------------------------------------------------------------------------

\* getPointsToSet reading S[Ptr(memLoc, idx)] instead of S.find
GetPointsToSetBySubscript(S0, memLoc, idx) ==
  LET S1 == Ensure(S0, <<memLoc, idx>>)
  IN [set |-> S1[<<memLoc, idx>>], warned |-> FALSE, S |-> S1]

\* getPointsToSet: the set returned, whether the warning was written, and
\* the map afterwards
GetPointsToSetOf(S0, memLoc, idx) ==
  IF <<memLoc, idx>> \notin DOMAIN S0
    THEN [set |-> {}, warned |-> TRUE, S |-> S0]
    ELSE [set |-> S0[<<memLoc, idx>>], warned |-> FALSE, S |-> S0]

\* the values and indices a client asks for
LookupValues == {"p", "q", "h", "f", "a", "gArrB", "m"}
LookupIndices == {-1, 0}

\* a client calls getPointsToSet on the map computePointsToSets returned
GetPointsToSet ==
  /\ phase = "done"
  /\ \E memLoc \in LookupValues, idx \in LookupIndices :
       \E res \in {GetPointsToSetOf(S, memLoc, idx)} :
         /\ got' = [called |-> TRUE, key |-> <<memLoc, idx>>,
                    set |-> res.set, warned |-> res.warned, before |-> S]
         /\ S' = res.S
  /\ UNCHANGED <<prog, pc, change, phase, NDEBUG, assertFailed, run, first,
                 ret, fixed>>
  /\ UNCHANGED <<extractVars, graphVars>>

\* one call of computePointsToSets, then lookups
LookupNext == Solve \/ GetPointsToSet

LookupSpec == Init /\ [][LookupNext]_vars

\* ------------------------------------------------------------------------
\* Properties
\* ------------------------------------------------------------------------

GepRules(P) == {i \in 1 .. Len(P) : P[i].tag = "VAR_ASGN_GEP"}

\* the set of (v, -1)
SetOf(S0, v) == At(S0, <<v, -1>>)

\* every pointee stored in the map
Pointees(S0) == UNION {S0[k] : k \in DOMAIN S0}

\* C1: whatever the rule sequence and the map the call starts from, the
\* repeat-until-no-change loop of fixpoint is left: a pass in which no rule
\* reports a change is reached (or, in a build with assertions, the run ends
\* at a failed assert before that).
C1_FixpointExits == (phase = "fixpoint") ~> (phase \in {"prune", "aborted"})

\* the loop has exited on the self-referential list after the GEP of
\* p->next filled up with three offsets into buf
C1_Witness ==
  /\ phase = "prune"
  /\ ~change
  /\ \E i \in 1 .. Len(prog) : prog[i] = Rule("VAR_ASGN_VAR", "p", "gNext")
  /\ Cardinality({e \in SetOf(S, "gNext") : e[1] = "buf"}) >= CrowdLimit
  /\ <<"buf", 56>> \notin SetOf(S, "gNext")

\* C2 as stated: the same rules in any order give the same final map
C2_OrderIndependent ==
  (phase = "done" /\ run = "reordered") => NonEmpty(S) = NonEmpty(ret)

\* no GEP rule of P reads the points-to set of its base
NoGepOverSet(P) ==
  \A i \in GepRules(P) : HasExtraReference(GepInst[P[i].r].op)

\* C2, amended: the same rules in any order give the same final map when
\* every VAR = GEP(VAR) rule among them has a base with an extra reference
C2_OrderIndependentWithoutSetGep ==
  (phase = "done" /\ run = "reordered" /\ NoGepOverSet(prog))
    => NonEmpty(S) = NonEmpty(ret)

\* a reordered sequence of three or more rules, a GEP among them, has been
\* solved to a map with several sets
C2_Witness ==
  /\ phase = "done"
  /\ run = "reordered"
  /\ prog # first
  /\ Len(prog) >= 3
  /\ NoGepOverSet(prog)
  /\ GepRules(prog) # {}
  /\ Cardinality(DOMAIN NonEmpty(S)) >= 2

\* C3: the solver is idempotent: the same call on the same inputs returns
\* the same map, a call on the map the solver returned returns that map
\* again, and at loop exit one more application of any rule changes no set.
C3_Idempotent ==
  /\ (phase = "done" /\ run = "reordered" /\ prog = first)
       => NonEmpty(S) = NonEmpty(ret)
  /\ (phase = "done" /\ run = "again") => NonEmpty(S) = NonEmpty(ret)
  /\ phase = "prune"
       => \A i \in 1 .. Len(prog) :
            NonEmpty(ApplyRules(prog[i], S, NDEBUG).S) = NonEmpty(S)

\* the second call has returned, and during it a set under a pruned key
\* was built again
C3_Witness ==
  /\ phase = "done"
  /\ run = "again"
  /\ \E k \in DOMAIN fixed : IsFunction(k[1]) /\ fixed[k] # {}
  /\ Cardinality(DOMAIN NonEmpty(S)) >= 2

\* C4 as stated: after solving every pointee offset is in [0, 64]
C4_OffsetsInRange ==
  phase = "done" => \A e \in Pointees(S) : e[2] >= 0 /\ e[2] <= ArrayCap

\* the GEP rules of P that project an array out of the set of their base
ArrayGepsOverSet(P) ==
  {i \in GepRules(P) :
     /\ ~HasExtraReference(GepInst[P[i].r].op)
     /\ AccumulateConstantOffset(P[i].r).isArray}

\* C4, amended: after solving, every pointee in the set of a GEP that
\* projects an array out of the set of its base has an offset in [0, 64]
C4_ArrayGepOffsetsInRange ==
  phase = "done"
    => \A i \in ArrayGepsOverSet(prog) :
         \A e \in SetOf(S, prog[i].l) : e[2] >= 0 /\ e[2] <= ArrayCap

\* offset 100 into buf was capped: the set of gArrP holds (buf, 64)
C4_Witness ==
  /\ phase = "done"
  /\ \E i \in ArrayGepsOverSet(prog) : prog[i].l = "gArrP"
  /\ <<"buf", ArrayCap>> \in SetOf(S, "gArrP")

\* C5: every pointee stored has an offset >= 0 and assert(I->second >= 0)
\* never fails
C5_OffsetsNonNegative ==
  /\ \A e \in Pointees(S) : e[2] >= 0
  /\ ~assertFailed

\* C6: a pointee whose value is a function or null has offset 0
C6_FunctionAndNullAtZero ==
  \A e \in Pointees(S) : (IsFunction(e[1]) \/ IsNull(e[1])) => e[2] = 0

\* C7: in the returned map no key names a function, and every other entry
\* is the one fixpoint returned
C7_PruneRemovesFunctionKeysOnly ==
  phase = "done"
    => /\ \A k \in DOMAIN S : ~IsFunction(k[1])
       /\ \A k \in DOMAIN fixed :
            ~IsFunction(k[1]) => k \in DOMAIN S /\ S[k] = fixed[k]

\* a store through a pointer to f had made (f, 0) a key; it is gone, and
\* the non-empty entries of other keys are there
C7_Witness ==
  /\ phase = "done"
  /\ <<"f", 0>> \in DOMAIN fixed
  /\ fixed[<<"f", 0>>] # {}
  /\ \E k \in DOMAIN S : S[k] # {}

RulesOf(P, tag) == {i \in 1 .. Len(P) : P[i].tag = tag}

\* C8: in the returned map set(L,-1) includes set(R,-1) for every VAR = VAR
C8_CopyInclusion ==
  phase = "done"
    => \A i \in RulesOf(prog, "VAR_ASGN_VAR") :
         SetOf(S, prog[i].r) \subseteq SetOf(S, prog[i].l)

\* a copy whose source is not empty and whose target holds more
C8_Witness ==
  /\ phase = "done"
  /\ \E i \in RulesOf(prog, "VAR_ASGN_VAR") :
       /\ SetOf(S, prog[i].r) # {}
       /\ SetOf(S, prog[i].l) # SetOf(S, prog[i].r)

\* C9: in the returned map set(L,-1) includes the set under every pointee
\* of set(R,-1), for every VAR = *VAR
C9_LoadClosure ==
  phase = "done"
    => \A i \in RulesOf(prog, "VAR_ASGN_DREF_VAR") :
         \A e \in SetOf(S, prog[i].r) : At(S, e) \subseteq SetOf(S, prog[i].l)

\* a load through a pointer to an object that holds a pointer
C9_Witness ==
  /\ phase = "done"
  /\ \E i \in RulesOf(prog, "VAR_ASGN_DREF_VAR") :
       \E e \in SetOf(S, prog[i].r) : At(S, e) # {}

\* C10 as stated: in the returned map the set under every pointee of
\* set(L,-1), functions included, includes set(R,-1), for every *VAR = VAR
C10_StoreClosure ==
  phase = "done"
    => \A i \in RulesOf(prog, "DREF_VAR_ASGN_VAR") :
         \A e \in SetOf(S, prog[i].l) : SetOf(S, prog[i].r) \subseteq At(S, e)

\* C10, amended: the same for every pointee of set(L,-1) whose value is not
\* a function
C10_StoreClosureOffFunctions ==
  phase = "done"
    => \A i \in RulesOf(prog, "DREF_VAR_ASGN_VAR") :
         \A e \in SetOf(S, prog[i].l) :
           ~IsFunction(e[1]) => SetOf(S, prog[i].r) \subseteq At(S, e)

\* a store of a non-empty set through a pointer to a function and to an
\* object
C10_Witness ==
  /\ phase = "done"
  /\ \E i \in RulesOf(prog, "DREF_VAR_ASGN_VAR") :
       /\ SetOf(S, prog[i].r) # {}
       /\ \E e \in SetOf(S, prog[i].l) : IsFunction(e[1])
       /\ \E e \in SetOf(S, prog[i].l) : ~IsFunction(e[1])

\* ------------------------------------------------------------------------
\* Properties of the rule extraction
\* ------------------------------------------------------------------------

\* the elements of a sequence
Range(seq) == {seq[k] : k \in 1 .. Len(seq)}

\* the positions of the instructions the walk has handled
Walked == 1 .. (ip - 1)

\* the functions the direct-call treatment was applied for at position at
TreatedAt(at) == {t[2] : t \in {u \in Range(treated) : u[1] = at}}

\* the rules emitted at position at
EmittedAt(at) == SelectSeq(out, LAMBDA e : e.at = at)

\* the positions of the walked calls through a pointer
IndirectCallsWalked ==
  {at \in Walked : LET c == mod.insts[at]
                   IN c.kind = "call" /\ ~c.asm /\ c.callee = "none"}

\* C11: at an indirect call the direct-call treatment is applied for exactly
\* the functions of FM whose type is compatible with the prototype of the
\* call, pointer return types of different pointee counting as compatible
C11_IndirectCandidatesCompatible ==
  \A at \in IndirectCallsWalked :
    TreatedAt(at) =
      {fn \in Range(BuildFM(mod.insts, 1)) :
         CompatibleFunTypes(mod.insts[at].proto, Function[fn].ty)}

\* the positions of the walked returns of a pointer value
PointerReturnsWalked ==
  {at \in Walked : LET r == mod.insts[at]
                   IN r.kind = "ret" /\ r.val # "none" /\ IsPointerValue(r.val)}

\* a rule with destination c and source v was emitted at position at
ReturnRuleEmitted(at, c, v) ==
  \E e \in Range(EmittedAt(at)) : e.rule.l = c.id /\ e.rule.r = v

\* the call c takes the value the return of function F passes back
ReturnsInto(F, c) ==
  IF c.callee # "none" THEN c.callee = F
  ELSE CompatibleFunTypes(Function[F].ty, c.proto)

\* C12: for a return of a pointer value v in F and a call c of CM whose
\* return type is that of F, the rule c <- v is emitted if and only if c is
\* a direct call of F or an indirect call with a compatible prototype; and
\* after solving the extracted rules of a module with c1 = getS() and
\* getS returning &s, (s, 0) is in set(c1, -1)
C12_ReturnRules ==
  /\ \A at \in PointerReturnsWalked :
       LET r == mod.insts[at]
       IN \A c \in Range(CallsOf(mod.insts, Function[r.fn].ty.ret)) :
            ReturnRuleEmitted(at, c, r.val) <=> ReturnsInto(r.fn, c)
  /\ (/\ xphase = "done"
      /\ DirectCall("c1", "f", "getS", <<>>) \in Range(mod.insts)
      /\ Return("getS", "s") \in Range(mod.insts))
       => <<"s", 0>> \in
            SetOf(ComputePointsToSets(RulesOut, EmptyMap, NDEBUG), "c1")

\* the module with c1 = getS(), c5 = idp(q) and the return of &s in getS
\* was extracted: a rule for c1, none for c5
C12_Witness ==
  /\ xphase = "done"
  /\ \E at \in PointerReturnsWalked :
       /\ mod.insts[at] = Return("getS", "s")
       /\ \E c \in Range(CallsOf(mod.insts, "i32p")) :
            c.id = "c1" /\ ReturnRuleEmitted(at, c, "s")
       /\ \E c \in Range(CallsOf(mod.insts, "i32p")) :
            c.id = "c5" /\ ~ReturnRuleEmitted(at, c, "s")
  /\ <<"s", 0>> \in SetOf(ComputePointsToSets(RulesOut, EmptyMap, NDEBUG), "c1")

\* the four cases of the extra-reference scheme
ShapeByReference(l, r) ==
  IF HasExtraReference(l) /\ HasExtraReference(r) THEN "VAR_ASGN_VAR"
  ELSE IF HasExtraReference(l) THEN "VAR_ASGN_DREF_VAR"
  ELSE IF HasExtraReference(r) THEN "VAR_ASGN_REF_VAR"
  ELSE "VAR_ASGN_VAR"

\* the four cases, after the case of a null actual
ShapeWithNull(l, r) ==
  IF IsNull(r) THEN "VAR_ASGN_NULL" ELSE ShapeByReference(l, r)

\* the (position, function) pairs of the treatments of functions that are
\* not memory management
PlainTreatments == {t \in Range(treated) : ~MemoryManStuff(t[2])}

\* the rules emitted at position at for callee fn, without the annotations
RulesFor(at, fn) ==
  LET es == SelectSeq(out, LAMBDA e : e.at = at /\ e.fn = fn)
  IN [k \in 1 .. Len(es) |-> es[k].rule]

\* the positions of the pointer formals of fn that have an actual in c
PassedFormals(c, fn) ==
  SelectSeq(Upto(Min(Len(Function[fn].args), Len(c.args))),
            LAMBDA i : IsPointerValue(Function[fn].args[i]))

\* the rules of a treatment are one per pointer formal that has an actual,
\* each of the shape Shape gives
OnePerPointerFormal(Shape(_, _)) ==
  \A t \in PlainTreatments :
    LET c  == mod.insts[t[1]]
        ix == PassedFormals(c, t[2])
        rs == RulesFor(t[1], t[2])
    IN /\ Len(rs) = Len(ix)
       /\ \A k \in 1 .. Len(ix) :
            LET l == Function[t[2]].args[ix[k]]
                r == c.args[ix[k]]
            IN rs[k] = Rule(Shape(l, r), l, r)

\* destinations and sources argPassRuleCode is tried on once the walk is
\* over: with and without an extra reference, and null
Destinations == {"a", "s", "fx", "c1"}
Sources == {"a", "f", "p", "fx", "null"}

\* argPassRuleCode gives the shape Shape for every destination and source
ShapedBy(Shape(_, _)) ==
  xphase = "done"
    => \A l \in Destinations, r \in Sources :
         ArgPassRuleCode(l, r) = Rule(Shape(l, r), l, r)

\* C13 as stated: one rule per pointer formal that has an actual, of the
\* shape the extra-reference status of formal and actual gives
C13_ArgRuleShapes ==
  /\ OnePerPointerFormal(ShapeByReference)
  /\ ShapedBy(ShapeByReference)

\* C13, amended: one rule per pointer formal that has an actual; it is
\* L = NULL when the actual is the null constant, and otherwise of the
\* shape the extra-reference status of formal and actual gives
C13_ArgRuleShapesOrNull ==
  /\ OnePerPointerFormal(ShapeWithNull)
  /\ ShapedBy(ShapeWithNull)

\* f(&a), f(p) and f(null) were extracted
C13_Witness ==
  /\ xphase = "done"
  /\ Cardinality(PlainTreatments) >= 3
  /\ {"VAR_ASGN_REF_VAR", "VAR_ASGN_VAR", "VAR_ASGN_NULL"}
       \subseteq {e.rule.tag : e \in Range(out)}

\* C14: the walk of a module does not get past a call that is inline
\* assembly
C14_InlineAssemblyAborts ==
  \A at \in Walked :
    ~(mod.insts[at].kind = "call" /\ IsInlineAssembly(mod.insts[at]))

\* C15: the vararg warning is written at most three times in a run, and an
\* actual beyond the formals of the callee produces no rule
C15_WarnedAtMostThrice ==
  /\ warnings <= 3
  /\ \A t \in PlainTreatments :
       \A rc \in Range(RulesFor(t[1], t[2])) :
         \E i \in 1 .. Min(Len(Function[t[2]].args), Len(mod.insts[t[1]].args)) :
           rc.l = Function[t[2]].args[i] /\ rc.r = mod.insts[t[1]].args[i]

\* ------------------------------------------------------------------------
\* Properties of the graph view
\* ------------------------------------------------------------------------

\* C16: insert returns true if and only if it changed the graph: a node was
\* created, an element was added to a node, or an edge was added
C16_InsertReturnsChanged ==
  [][(call'.op = "insert" /\ call'.n = call.n + 1)
       => (call'.ret <=> (Nodes' # Nodes))]_vars

\* every (pointer, location) pair insert was called with is in M
InFlat(M) ==
  \A pair \in hist : pair[1] \in DOMAIN M /\ pair[2] \in M[pair[1]]

\* C17: toPointsToSets on an empty map returns, for every key of the map the
\* graph was built from by insert, a superset of the set of that key
C17_RoundTrip == flat.called => InFlat(flat.PS)

\* a graph built by three inserts, one key with two pointees, was flattened
\* to a map that holds more than was inserted
C17_Witness ==
  /\ flat.called
  /\ call.n = 3
  /\ Cardinality(hist) = 3
  /\ \E k \in GraphPointers : Cardinality({pr \in hist : pr[1] = k}) = 2
  /\ \E k \in DOMAIN flat.PS :
       \E e \in flat.PS[k] : <<k, e>> \notin hist

\* the nodes a pointee is an element of
NodesOf(x) == {i \in 1 .. Len(Nodes) : x \in Nodes[i].Elements}

FarArrayGeps(P) ==
  {i \in GepRules(P) :
     LET acc == AccumulateFrom(GepInst[P[i].r].idx, 1, 0, FALSE)
     IN acc.isArray /\ acc.off = 100}

\* the result of the rule at i for the array buf is in L with offset 64
CappedInL(i) ==
  LET op == GepInst[prog[i].r].op
  IN IF HasExtraReference(op)
       THEN <<op, ArrayCap>> \in SetOf(S, prog[i].l)
       ELSE \A e \in SetOf(S, op) :
              e[1] = "buf" => <<"buf", ArrayCap>> \in SetOf(S, prog[i].l)

\* C19 as stated: a GEP whose array indices accumulate to 100 leaves its
\* result in L with offset 64 and never with offset 100, whether the base
\* has an extra reference or is a pointer to the array
C19_ArrayCapEveryBase ==
  phase = "done"
    => \A i \in FarArrayGeps(prog) :
         /\ CappedInL(i)
         /\ \A e \in SetOf(S, prog[i].l) : e[2] # 100

\* C19, amended: the result is in L with offset 64 and never with offset
\* 100 when the base is a pointer whose set names the array; when the base
\* has an extra reference the result is in L with offset 100
C19_ArrayCapOverSet ==
  phase = "done"
    => \A i \in FarArrayGeps(prog) :
         IF HasExtraReference(GepInst[prog[i].r].op)
           THEN <<GepInst[prog[i].r].op, 100>> \in SetOf(S, prog[i].l)
           ELSE /\ CappedInL(i)
                /\ \A e \in SetOf(S, prog[i].l) : e[2] # 100

\* p points to the array buf and to the struct a; the GEP of element 25
\* over p holds (buf, 64) and nothing else
C19_Witness ==
  /\ phase = "done"
  /\ \E i \in FarArrayGeps(prog) : prog[i].l = "gArrP"
  /\ {<<"buf", 0>>, <<"a", 0>>} \subseteq SetOf(S, "p")
  /\ SetOf(S, "gArrP") = {<<"buf", ArrayCap>>}

\* C20: a lookup of a key that is not in the map returns the empty set and
\* writes the warning; a lookup of a key that is in the map returns its set
\* and writes no warning; the map is left as it was, no key is created
C20_Lookup ==
  got.called
    => /\ S = got.before
       /\ DOMAIN S = DOMAIN got.before
       /\ IF got.key \in DOMAIN got.before
            THEN got.set = got.before[got.key] /\ ~got.warned
            ELSE got.set = {} /\ got.warned

\* the key (f, 0), which a store had created and pruneByType erased, was
\* looked up in a map that has other keys, one of them with an empty set
C20_Witness ==
  /\ got.called
  /\ got.key = <<"f", 0>>
  /\ got.warned
  /\ <<"f", 0>> \in DOMAIN fixed
  /\ \E k \in DOMAIN S : S[k] = {}
  /\ \E k \in DOMAIN S : S[k] # {}

\* ------------------------------------------------------------------------
\* The entries the GEP rule skips
\* ------------------------------------------------------------------------

\* the rule the for loop of fixpoint has just applied is a GEP whose base
\* has no extra reference: S is the map after the application, and the set
\* of the base is as the application read it
GepOverSetApplied ==
  /\ phase = "fixpoint"
  /\ pc > 1
  /\ prog[pc - 1].tag = "VAR_ASGN_GEP"
  /\ ~HasExtraReference(GepInst[prog[pc - 1].r].op)

\* the set of the base, the set L and the constant offset of that rule
BaseSet == SetOf(S, GepInst[prog[pc - 1].r].op)
LSet == SetOf(S, prog[pc - 1].l)
GepOff == AccumulateConstantOffset(prog[pc - 1].r).off
GepIsArray == AccumulateConstantOffset(prog[pc - 1].r).isArray

\* rOff + off clamped to 0 if negative, to 64 if the projection is an array
\* and the sum exceeds 64
Clamped(sum) ==
  IF sum < 0 THEN 0 ELSE IF GepIsArray /\ sum > 64 THEN 64 ELSE sum

\* an initialized global or a non-array alloca
IsSized(v) == ValueKind[v] \in {"global_init", "alloca"}

\* the entries of L whose first component is v
EntriesOf(L, v) == {x \in L : x[1] = v}

\* one of the three stated reasons holds for the entry I
StatedSkip(I) ==
  \/ GepOff # 0 /\ (IsFunction(I[1]) \/ IsNull(I[1]))
  \/ IsSized(I[1]) /\ I[2] + GepOff >= TypeAllocSize(I[1])
  \/ Cardinality(EntriesOf(LSet, I[1])) >= 3

\* C21 as stated: an entry (Rval, rOff) of set(op,-1) is skipped only
\* because Rval is a function or null and off # 0, because Rval is sized
\* and rOff + off >= its size, or because L holds three entries of Rval;
\* for every other entry (Rval, clamped sum) is in L after the application
C21_SkippedOnlyAsStated ==
  GepOverSetApplied
    => \A I \in BaseSet :
         I[2] >= 0 => StatedSkip(I) \/ <<I[1], Clamped(I[2] + GepOff)>> \in LSet

\* C21, amended: an entry is skipped also when L contains the entry itself,
\* (Rval, rOff), and when Rval is sized and rOff + off is negative; every
\* entry skipped for none of the five reasons has (Rval, clamped sum) in L
C21_SkippedAlsoWhenInL ==
  GepOverSetApplied
    => \A I \in BaseSet :
         I[2] >= 0
           => \/ StatedSkip(I)
              \/ I \in LSet
              \/ IsSized(I[1]) /\ I[2] + GepOff < 0
              \/ <<I[1], Clamped(I[2] + GepOff)>> \in LSet

\* p = &p->next was applied over a set of p that holds (a,0) and four
\* places of buf: (a,8) and three places of buf are in L, the fourth place
\* of buf was dropped by the crowding rule
C21_Witness ==
  /\ GepOverSetApplied
  /\ prog[pc - 1].r = "gNext"
  /\ <<"a", 0>> \in BaseSet /\ <<"a", 8>> \in LSet
  /\ \E I \in BaseSet :
       /\ I[1] = "buf"
       /\ <<"buf", I[2] + 8>> \notin LSet
       /\ I \notin LSet
       /\ Cardinality(EntriesOf(LSet, "buf")) = 3

\* C22: a negative sum rOff + off is clamped to 0 and (Rval, 0) is in L
\* after the application, also when Rval is an initialized global or a
\* non-array alloca: a negative sum never counts as exceeding the size
C22_NegativeSumClamped ==
  GepOverSetApplied
    => \A I \in BaseSet :
         (/\ I[2] >= 0
          /\ I[2] + GepOff < 0
          /\ ~(IsFunction(I[1]) \/ IsNull(I[1]))
          /\ Cardinality(EntriesOf(LSet, I[1])) < 3)
           => <<I[1], 0>> \in LSet

\* ------------------------------------------------------------------------
\* Monotonicity of the rule applications
\* ------------------------------------------------------------------------

\* a step of fixpoint: a rule application, the start of the next pass or
\* the exit of the loop
FixpointStep == phase = "fixpoint" /\ phase' \in {"fixpoint", "prune", "aborted"}

\* applyRules was called on prog[pc] and returned
RuleApplied == phase = "fixpoint" /\ pc <= Len(prog) /\ pc' = pc + 1

\* no key is removed and no set loses an entry
Monotone == \A k \in DOMAIN S : k \in DOMAIN S' /\ S[k] \subseteq S'[k]

\* at least one set strictly grew
Grew == \E k \in DOMAIN S' : At(S, k) # S'[k]

\* C23: every rule application is monotone: the set of every key present
\* before is a subset of its set afterwards and no key is removed; applyRule
\* returns true if and only if at least one set strictly grew, so the flag
\* of fixpoint is set exactly then; DEALLOC changes nothing and returns
\* false; no step of fixpoint removes an entry
C23_Monotone ==
  [][/\ FixpointStep => Monotone
     /\ RuleApplied
          => /\ ApplyRules(prog[pc], S, NDEBUG).changed <=> (Monotone /\ Grew)
             /\ change' <=> (change \/ Grew)
             /\ prog[pc].tag = "DEALLOC" => S' = S /\ change' = change]_vars

\* in a second pass *q = p was applied with q pointing to a and to f: the
\* sets under both pointees hold a, and the flag is set
C23_Witness ==
  /\ phase = "fixpoint"
  /\ pc > 1
  /\ prog[pc - 1] = Rule("DREF_VAR_ASGN_VAR", "q", "p")
  /\ SetOf(S, "q") = {<<"a", 0>>, <<"f", 0>>}
  /\ <<"a", 0>> \in At(S, <<"a", 0>>) /\ <<"a", 0>> \in At(S, <<"f", 0>>)
  /\ change

\* ------------------------------------------------------------------------
\* The nodes of the graph and insertDerefPointee
\* ------------------------------------------------------------------------

\* the pointees a graph operation can be called with
GraphPointees == GraphPointers \cup GraphLocations

\* C24: after any sequence of graph operations, with a category predicate
\* that is an equivalence relation, every node is non-empty and its elements
\* are pairwise in the same category, so the test of the first element of a
\* node decides whether a location is in the category of all its elements
C24_NodesHomogeneous ==
  \A i \in 1 .. Len(Nodes) :
    /\ Nodes[i].Elements # {}
    /\ \A x, y \in Nodes[i].Elements : AreInSameCategory(category, x, y)
    /\ \A loc \in GraphPointees :
         AreInSameCategory(category, First(Nodes[i].Elements), loc)
           <=> \A e \in Nodes[i].Elements :
                 AreInSameCategory(category, e, loc)

\* with the categories by value, insert has put (a,8) into the successor
\* node that held (a,0): a node with two elements of the same category
C24_Witness ==
  /\ category = "value"
  /\ call.op = "insert"
  /\ call.ret
  /\ \E i \in 1 .. Len(Nodes) :
       /\ {<<"a", 0>>, <<"a", 8>>} \subseteq Nodes[i].Elements
       /\ \E j \in 1 .. Len(Nodes) : i \in Nodes[j].Edges
  /\ \E i \in 1 .. Len(Nodes) : Nodes[i].Elements = {<<"buf", 0>>}

\* insertDerefPointee was called in this step
DerefPointeeCalled ==
  call'.op = "insertDerefPointee" /\ call'.n = call.n + 1

\* the position after the call of the node that was at position i, when k
\* is where a node was created (0 when none was)
Moved(i, k) == IF k # 0 /\ i >= k THEN i + 1 ELSE i

\* C25: insertDerefPointee(p, loc) returns false and leaves nodes, elements
\* and edges as they were when loc has no node or its node has no outgoing
\* edge; otherwise p has a node afterwards whose edges include every edge of
\* the node of loc, no other node's elements or edges change, and the call
\* returns true if and only if an edge was added
C25_InsertDerefPointee ==
  [][DerefPointeeCalled
       => LET LocationNode == FindNode(Nodes, call'.loc)
              PointerNode  == FindNode(Nodes, call'.p)
              k == IF PointerNode = 0 THEN FindNode(Nodes', call'.p) ELSE 0
              Image(E) == {Moved(e, k) : e \in E}
          IN IF LocationNode = 0 \/ Nodes[LocationNode].Edges = {}
               THEN ~call'.ret /\ Nodes' = Nodes
               ELSE /\ FindNode(Nodes', call'.p) # 0
                    /\ Len(Nodes') = Len(Nodes) + (IF PointerNode = 0 THEN 1 ELSE 0)
                    /\ PointerNode = 0 => Nodes'[k].Elements = {call'.p}
                    /\ Image(Nodes[LocationNode].Edges)
                         \subseteq Nodes'[FindNode(Nodes', call'.p)].Edges
                    /\ \A i \in 1 .. Len(Nodes) :
                         /\ Nodes'[Moved(i, k)].Elements = Nodes[i].Elements
                         /\ i # PointerNode
                              => Nodes'[Moved(i, k)].Edges = Image(Nodes[i].Edges)
                    /\ call'.ret
                         <=> IF PointerNode = 0
                               THEN Nodes'[k].Edges # {}
                               ELSE Nodes'[PointerNode].Edges
                                      # Nodes[PointerNode].Edges]_vars

\* insertDerefPointee(p, a) gave the node of p the edge of the node of
\* (a,0), which leads to the node of buf, and returned true
C25_Witness ==
  /\ call.op = "insertDerefPointee"
  /\ call.ret
  /\ call.p = <<"p", -1>> /\ call.loc = <<"a", 0>>
  /\ FindNode(Nodes, call.p) # 0 /\ FindNode(Nodes, call.loc) # 0
  /\ FindNode(Nodes, call.p) # FindNode(Nodes, call.loc)
  /\ FindNode(Nodes, <<"buf", 0>>) \in Nodes[FindNode(Nodes, call.loc)].Edges
  /\ Nodes[FindNode(Nodes, call.loc)].Edges
       \subseteq Nodes[FindNode(Nodes, call.p)].Edges

====
